---- MODULE Spec2Model ----
(***************************************************************************)
(* Model of s2t-gcp.py: a command-line program that either lists the       *)
(* voices of the Google Cloud Text-to-Speech service for a language code   *)
(* or converts a text file to an MP3 file through that service.            *)
(*                                                                         *)
(* The state is the process (program position, parsed arguments, locals),  *)
(* its environment (command line, file system) and what it has done so far *)
(* (console output, the sequence of I/O and remote operations).  The       *)
(* remote service and the file system are the environment: every call may  *)
(* succeed with any answer of a bounded set, or raise.                     *)
(***************************************************************************)
EXTENDS Integers, Sequences, FiniteSets, TLC

\* ------------------------------------------------------------------ bounds
MaxLen == 2        \* longest input file content
MaxAudio == 2      \* longest audio payload returned by the service
MaxVoices == 2     \* longest voice list returned by the service

\* --------------------------------------------------------- program constants
NumSlots == 2      \* positional arguments declared: input_file, output_file
DividerWidth == 60

DefaultVoice == "en-US-Wavenet-D"
DefaultLanguage == "en-US"
AudioEncoding == "MP3"

\* ------------------------------------------------------------- value domains
None == "<None>"          \* Python None
Absent == "<absent>"      \* an option not present on the command line

\* what a path holds: nothing, something that cannot be opened, or a file
Missing == [st |-> "missing", data |-> <<>>]
Denied == [st |-> "denied", data |-> <<>>]
File(content) == [st |-> "file", data |-> content]

Paths == {"in.txt", "out.mp3"}
PosVals == {""} \cup Paths            \* values a positional may take
Extra == "extra"                      \* a third positional
VoiceOpts == {Absent, "fr-FR-Wavenet-A"}
LanguageOpts == {Absent, "fr-FR"}
FileChars == {"a", "CR", "LF"}
Bytes == {"00", "ff"}                 \* byte values of an audio payload
OldContent == <<"a", "a", "a">>       \* an output file left by an earlier run

SeqsUpTo(S, n) == UNION {[1..k -> S] : k \in 0..n}

\* SsmlVoiceGender, by numeric value 0..3
GenderNames == <<"SSML_VOICE_GENDER_UNSPECIFIED", "MALE", "FEMALE", "NEUTRAL">>
Genders == {g - 1 : g \in DOMAIN GenderNames}

\* the voices of the service, in the order it reports them
VoiceCatalog ==
  << [name |-> "v-A", language_codes |-> <<"en-US">>, ssml_gender |-> 1,
      natural_sample_rate_hertz |-> 24000],
     [name |-> "v-B", language_codes |-> <<"en-US", "fr-FR">>, ssml_gender |-> 2,
      natural_sample_rate_hertz |-> 22050],
     [name |-> "v-C", language_codes |-> <<"fr-FR">>, ssml_gender |-> 0,
      natural_sample_rate_hertz |-> 24000],
     [name |-> "v-D", language_codes |-> <<"fr-FR">>, ssml_gender |-> 3,
      natural_sample_rate_hertz |-> 16000] >>

\* the voices of the catalog at the positions S, from position k on
RECURSIVE Selection(_, _)
Selection(k, S) ==
  IF k > Len(VoiceCatalog) THEN <<>>
  ELSE (IF k \in S THEN <<VoiceCatalog[k]>> ELSE <<>>) \o Selection(k + 1, S)

\* the answers client.list_voices may give: at most MaxVoices of the voices
VoiceLists ==
  { Selection(1, S) : S \in {T \in SUBSET DOMAIN VoiceCatalog :
                               Cardinality(T) <= MaxVoices} }

\* command lines: at most NumSlots positionals, or NumSlots followed by one more
CommandLines ==
  [ pos : SeqsUpTo(PosVals, NumSlots)
          \cup {p \o <<Extra>> : p \in [1..NumSlots -> PosVals]},
    list_voices : BOOLEAN,
    help : BOOLEAN,
    voice : VoiceOpts,
    language : LanguageOpts ]

\* ---------------------------------------------------------- pure functions
\* open(..., 'r', encoding='utf-8') + read(): universal newlines
RECURSIVE ReadText(_)
ReadText(s) ==
  IF s = <<>> THEN <<>>
  ELSE IF s[1] = "CR"
       THEN IF Len(s) > 1 /\ s[2] = "LF"
            THEN <<"LF">> \o ReadText(SubSeq(s, 3, Len(s)))
            ELSE <<"LF">> \o ReadText(Tail(s))
       ELSE <<s[1]>> \o ReadText(Tail(s))

\* Python truthiness of a positional: None and '' are falsy
Falsy(x) == x = None \/ x = ""

\* what opening a path finds
FileState(f, p) == IF p \in DOMAIN f THEN f[p]
                   ELSE IF p = "" THEN Missing ELSE Denied

\* texttospeech.SsmlVoiceGender(g).name
GenderName(g) == GenderNames[g + 1]

\* ', '.join(codes)
RECURSIVE Join(_)
Join(codes) ==
  IF Len(codes) = 0 THEN <<>>
  ELSE IF Len(codes) = 1 THEN <<codes[1]>>
  ELSE <<codes[1], ", ">> \o Join(Tail(codes))

\* ------------------------------------------------------------ console lines
Err(tag) == <<"error", tag>>
HelpText == <<"help">>
UsageError == <<"usage">>
Rule == <<"rule", "=", DividerWidth>>
Divider == <<"rule", "-", DividerWidth>>
BannerLine(language_code) == <<"banner", language_code>>
Progress(tag, a, b) == <<"progress", tag, a, b>>

IsErr(m) == m[1] = "error"

\* lines 44-46
Banner(language_code) == <<Rule, BannerLine(language_code), Rule>>

\* lines 49-53: the body of the loop over response.voices
VoiceReport_NoDivider(v) ==
  << <<"Name", v.name>>,
     <<"Languages", Join(v.language_codes)>>,
     <<"Gender", GenderName(v.ssml_gender)>>,
     <<"Natural Sample Rate", v.natural_sample_rate_hertz>> >>

VoiceReport(v) ==
  << <<"Name", v.name>>,
     <<"Languages", Join(v.language_codes)>>,
     <<"Gender", GenderName(v.ssml_gender)>>,
     <<"Natural Sample Rate", v.natural_sample_rate_hertz>>,
     Divider >>

\* lines 92-101: the synthesis request
BuildRequest_DefaultVoice(t, voice_name, language_code) ==
  [ text |-> t, language_code |-> language_code, name |-> DefaultVoice,
    audio_encoding |-> AudioEncoding ]

BuildRequest(t, voice_name, language_code) ==
  [ text |-> t, language_code |-> language_code, name |-> voice_name,
    audio_encoding |-> AudioEncoding ]

\* ---------------------------------------------------------------- state
VARIABLES
  argv,        \* the command line
  fs,          \* file system: path -> Missing, Denied or File(content)
  pc,          \* program position
  args,        \* argparse namespace, NoArgs before parsing succeeds
  text,        \* text_to_speech: text read from input
  request,     \* text_to_speech: the synthesis request built
  voices,      \* list_voices: response.voices
  audio,       \* text_to_speech: response.audio_content
  idx,         \* list_voices: number of voices already printed
  out,         \* console output, one entry per print
  ops,         \* I/O and remote operations attempted so far, in order
  exitStatus   \* process exit status, -1 while running

vars == <<argv, fs, pc, args, text, request, voices, audio, idx, out, ops, exitStatus>>

Running == -1

NoArgs == [ input_file |-> None, output_file |-> None, list_voices |-> FALSE,
            voice |-> None, language |-> None ]
NoRequest == [ text |-> <<>>, language_code |-> None, name |-> None,
               audio_encoding |-> None ]

Init ==
  /\ argv \in CommandLines
  /\ \E i \in {Missing, Denied} \cup {File(c) : c \in SeqsUpTo(FileChars, MaxLen)},
        o \in {Missing, Denied, File(OldContent)} :
       fs = [p \in Paths |-> IF p = "in.txt" THEN i ELSE o]
  /\ pc = "parse"
  /\ args = NoArgs
  /\ text = <<>>
  /\ request = NoRequest
  /\ voices = <<>>
  /\ audio = <<>>
  /\ idx = 0
  /\ out = <<>>
  /\ ops = <<>>
  /\ exitStatus = Running

\* sys.exit(n), or falling off the end of the script
Exit(n) == pc' = "exited" /\ exitStatus' = n

Say(lines) == out' = out \o lines
Do(op) == ops' = Append(ops, op)

\* ------------------------------------------------------------- main: parse
\* line 173, -h/--help given: argparse prints the help and exits 0
ParseHelp ==
  /\ pc = "parse"
  /\ argv.help
  /\ Say(<<HelpText>>)
  /\ Exit(0)
  /\ UNCHANGED <<argv, fs, args, text, request, voices, audio, idx, ops>>

\* line 173, more positionals than declared: argparse reports and exits 2
ParseError ==
  /\ pc = "parse"
  /\ ~argv.help
  /\ Len(argv.pos) > NumSlots
  /\ Say(<<UsageError, Err("unrecognized arguments")>>)
  /\ Exit(2)
  /\ UNCHANGED <<argv, fs, args, text, request, voices, audio, idx, ops>>

Namespace(cl) ==
  [ input_file |-> IF Len(cl.pos) >= 1 THEN cl.pos[1] ELSE None,
    output_file |-> IF Len(cl.pos) >= 2 THEN cl.pos[2] ELSE None,
    list_voices |-> cl.list_voices,
    voice |-> IF cl.voice = Absent THEN DefaultVoice ELSE cl.voice,
    language |-> IF cl.language = Absent THEN DefaultLanguage ELSE cl.language ]

ParseOk ==
  /\ pc = "parse"
  /\ ~argv.help
  /\ Len(argv.pos) <= NumSlots
  /\ args' = Namespace(argv)
  /\ pc' = "dispatch"
  /\ UNCHANGED <<argv, fs, text, request, voices, audio, idx, out, ops, exitStatus>>

\* ---------------------------------------------------------- main: dispatch
\* lines 176-187
Dispatch_PositionalsFirst ==
  /\ pc = "dispatch"
  /\ IF Falsy(args.input_file) \/ Falsy(args.output_file)
     THEN Say(<<HelpText>>) /\ Exit(1)
     ELSE IF args.list_voices
     THEN pc' = "lv_client" /\ UNCHANGED <<out, exitStatus>>
     ELSE pc' = "tts_read" /\ UNCHANGED <<out, exitStatus>>
  /\ UNCHANGED <<argv, fs, args, text, request, voices, audio, idx, ops>>

Dispatch_And ==
  /\ pc = "dispatch"
  /\ IF args.list_voices
     THEN pc' = "lv_client" /\ UNCHANGED <<out, exitStatus>>
     ELSE IF Falsy(args.input_file) /\ Falsy(args.output_file)
     THEN Say(<<HelpText>>) /\ Exit(1)
     ELSE pc' = "tts_read" /\ UNCHANGED <<out, exitStatus>>
  /\ UNCHANGED <<argv, fs, args, text, request, voices, audio, idx, ops>>

Dispatch ==
  /\ pc = "dispatch"
  /\ IF args.list_voices
     THEN pc' = "lv_client" /\ UNCHANGED <<out, exitStatus>>
     ELSE IF Falsy(args.input_file) \/ Falsy(args.output_file)
     THEN Say(<<HelpText>>) /\ Exit(1)
     ELSE pc' = "tts_read" /\ UNCHANGED <<out, exitStatus>>
  /\ UNCHANGED <<argv, fs, args, text, request, voices, audio, idx, ops>>

\* lines 187-191: the selected function returned, the script ends
Return ==
  /\ pc = "return"
  /\ Exit(0)
  /\ UNCHANGED <<argv, fs, args, text, request, voices, audio, idx, out, ops>>

\* ------------------------------------------------------------ list_voices
\* lines 35-36: TextToSpeechClient() succeeds
LvClientOk ==
  /\ pc = "lv_client"
  /\ Do([op |-> "client", arg |-> None])
  /\ pc' = "lv_query"
  /\ UNCHANGED <<argv, fs, args, text, request, voices, audio, idx, out, exitStatus>>

\* lines 37-39: TextToSpeechClient() raises
LvClientFail ==
  /\ pc = "lv_client"
  /\ Do([op |-> "client", arg |-> None])
  /\ Say(<<Err("creating client")>>)
  /\ Exit(1)
  /\ UNCHANGED <<argv, fs, args, text, request, voices, audio, idx>>

\* lines 42-46: client.list_voices answers; the banner is printed
LvQueryOk ==
  /\ pc = "lv_query"
  /\ \E vs \in VoiceLists : voices' = vs
  /\ Do([op |-> "list_voices", arg |-> args.language])
  /\ Say(Banner(args.language))
  /\ idx' = 0
  /\ pc' = "lv_loop"
  /\ UNCHANGED <<argv, fs, args, text, request, audio, exitStatus>>

\* lines 42, 55-57: client.list_voices raises
LvQueryFail_NoExit ==
  /\ pc = "lv_query"
  /\ Do([op |-> "list_voices", arg |-> args.language])
  /\ Say(<<Err("listing voices")>>)
  /\ pc' = "return"
  /\ UNCHANGED <<argv, fs, args, text, request, voices, audio, idx, exitStatus>>

LvQueryFail ==
  /\ pc = "lv_query"
  /\ Do([op |-> "list_voices", arg |-> args.language])
  /\ Say(<<Err("listing voices")>>)
  /\ Exit(1)
  /\ UNCHANGED <<argv, fs, args, text, request, voices, audio, idx>>

\* lines 48-53: one iteration of the loop over response.voices
LvPrintVoice ==
  /\ pc = "lv_loop"
  /\ idx < Len(voices)
  /\ Say(VoiceReport(voices[idx + 1]))
  /\ idx' = idx + 1
  /\ UNCHANGED <<argv, fs, pc, args, text, request, voices, audio, ops, exitStatus>>

\* line 48: the loop is exhausted, list_voices returns
LvDone ==
  /\ pc = "lv_loop"
  /\ idx = Len(voices)
  /\ pc' = "return"
  /\ UNCHANGED <<argv, fs, args, text, request, voices, audio, idx, out, ops, exitStatus>>

\* --------------------------------------------------------- text_to_speech
\* lines 72-81: read the input file
TtsRead_NoExit ==
  /\ pc = "tts_read"
  /\ Do([op |-> "open_r", arg |-> args.input_file])
  /\ LET f == FileState(fs, args.input_file) IN
       IF f.st = "missing"
       THEN /\ Say(<<Err("input not found")>>)
            /\ pc' = "tts_client"
            /\ UNCHANGED <<text, exitStatus>>
       ELSE IF f.st = "denied"
       THEN /\ Say(<<Err("reading input file")>>)
            /\ Exit(1)
            /\ UNCHANGED text
       ELSE /\ text' = ReadText(f.data)
            /\ Say(<<Progress("read", Len(text'), args.input_file)>>)
            /\ pc' = "tts_client"
            /\ UNCHANGED exitStatus
  /\ UNCHANGED <<argv, fs, args, request, voices, audio, idx>>

TtsRead ==
  /\ pc = "tts_read"
  /\ Do([op |-> "open_r", arg |-> args.input_file])
  /\ LET f == FileState(fs, args.input_file) IN
       IF f.st = "missing"
       THEN /\ Say(<<Err("input not found")>>)
            /\ Exit(1)
            /\ UNCHANGED text
       ELSE IF f.st = "denied"
       THEN /\ Say(<<Err("reading input file")>>)
            /\ Exit(1)
            /\ UNCHANGED text
       ELSE /\ text' = ReadText(f.data)
            /\ Say(<<Progress("read", Len(text'), args.input_file)>>)
            /\ pc' = "tts_client"
            /\ UNCHANGED exitStatus
  /\ UNCHANGED <<argv, fs, args, request, voices, audio, idx>>

\* lines 84-86: TextToSpeechClient() succeeds
TtsClientOk ==
  /\ pc = "tts_client"
  /\ Do([op |-> "client", arg |-> None])
  /\ Say(<<Progress("connected", 0, None)>>)
  /\ pc' = "tts_build"
  /\ UNCHANGED <<argv, fs, args, text, request, voices, audio, idx, exitStatus>>

\* lines 87-89: TextToSpeechClient() raises
TtsClientFail_Continue ==
  /\ pc = "tts_client"
  /\ Do([op |-> "client", arg |-> None])
  /\ Say(<<Err("creating client")>>)
  /\ pc' = "tts_build"
  /\ UNCHANGED <<argv, fs, args, text, request, voices, audio, idx, exitStatus>>

TtsClientFail ==
  /\ pc = "tts_client"
  /\ Do([op |-> "client", arg |-> None])
  /\ Say(<<Err("creating client")>>)
  /\ Exit(1)
  /\ UNCHANGED <<argv, fs, args, text, request, voices, audio, idx>>

\* lines 92-103: build the request, report the voice
TtsBuild ==
  /\ pc = "tts_build"
  /\ request' = BuildRequest(text, args.voice, args.language)
  /\ Do([op |-> "build", arg |-> None])
  /\ Say(<<Progress("using voice", args.voice, args.language)>>)
  /\ pc' = "tts_synth"
  /\ UNCHANGED <<argv, fs, args, text, voices, audio, idx, exitStatus>>

\* lines 107-113: client.synthesize_speech answers
TtsSynthOk ==
  /\ pc = "tts_synth"
  /\ \E a \in SeqsUpTo(Bytes, MaxAudio) : audio' = a
  /\ Do([op |-> "synthesize", arg |-> request])
  /\ Say(<<Progress("synthesizing", 0, None), Progress("complete", 0, None)>>)
  /\ pc' = "tts_write"
  /\ UNCHANGED <<argv, fs, args, text, request, voices, idx, exitStatus>>

\* lines 107-108, 114-116: client.synthesize_speech raises
TtsSynthFail_NoExit ==
  /\ pc = "tts_synth"
  /\ Do([op |-> "synthesize", arg |-> request])
  /\ Say(<<Progress("synthesizing", 0, None), Err("during synthesis")>>)
  /\ pc' = "tts_write"
  /\ UNCHANGED <<argv, fs, args, text, request, voices, audio, idx, exitStatus>>

TtsSynthFail_Retry ==
  /\ pc = "tts_synth"
  /\ Len(ops) < 6
  /\ Do([op |-> "synthesize", arg |-> request])
  /\ Say(<<Progress("synthesizing", 0, None)>>)
  /\ UNCHANGED <<argv, fs, pc, args, text, request, voices, audio, idx, exitStatus>>

TtsSynthFail ==
  /\ pc = "tts_synth"
  /\ Do([op |-> "synthesize", arg |-> request])
  /\ Say(<<Progress("synthesizing", 0, None), Err("during synthesis")>>)
  /\ Exit(1)
  /\ UNCHANGED <<argv, fs, args, text, request, voices, audio, idx>>

\* lines 120-122: the output file is opened "wb" and the payload written
TtsWriteOk_Append ==
  /\ pc = "tts_write"
  /\ FileState(fs, args.output_file).st # "denied"
  /\ Do([op |-> "open_w", arg |-> args.output_file])
  /\ fs' = [fs EXCEPT ![args.output_file] = File(@.data \o audio)]
  /\ Say(<<Progress("written", 0, args.output_file)>>)
  /\ pc' = "return"
  /\ UNCHANGED <<argv, args, text, request, voices, audio, idx, exitStatus>>

TtsWriteOk ==
  /\ pc = "tts_write"
  /\ FileState(fs, args.output_file).st # "denied"
  /\ Do([op |-> "open_w", arg |-> args.output_file])
  /\ fs' = [fs EXCEPT ![args.output_file] = File(audio)]
  /\ Say(<<Progress("written", 0, args.output_file)>>)
  /\ pc' = "return"
  /\ UNCHANGED <<argv, args, text, request, voices, audio, idx, exitStatus>>

\* lines 120, 123-125: open(output_file, "wb") raises, nothing is changed
TtsOpenFail ==
  /\ pc = "tts_write"
  /\ FileState(fs, args.output_file).st = "denied"
  /\ Do([op |-> "open_w", arg |-> args.output_file])
  /\ Say(<<Err("writing output file")>>)
  /\ Exit(1)
  /\ UNCHANGED <<argv, fs, args, text, request, voices, audio, idx>>

\* lines 120-121, 123-125: the file is opened (and truncated), the write
\* raises after part of the payload
TtsWriteFail ==
  /\ pc = "tts_write"
  /\ FileState(fs, args.output_file).st # "denied"
  /\ Do([op |-> "open_w", arg |-> args.output_file])
  /\ \E n \in 0..(Len(audio) - 1) :
       fs' = [fs EXCEPT ![args.output_file] = File(SubSeq(audio, 1, n))]
  /\ Say(<<Err("writing output file")>>)
  /\ Exit(1)
  /\ UNCHANGED <<argv, args, text, request, voices, audio, idx>>

\* ------------------------------------------------------------ specification
Next ==
  \/ ParseHelp \/ ParseError \/ ParseOk
  \/ Dispatch
  \/ LvClientOk \/ LvClientFail \/ LvQueryOk \/ LvQueryFail
  \/ LvPrintVoice \/ LvDone
  \/ TtsRead \/ TtsClientOk \/ TtsClientFail \/ TtsBuild
  \/ TtsSynthOk \/ TtsSynthFail
  \/ TtsWriteOk \/ TtsOpenFail \/ TtsWriteFail
  \/ Return

Spec == Init /\ [][Next]_vars

\* the interpreter runs the next statement, and every blocking call returns
FairSpec == Spec /\ WF_vars(Next)

TypeOK ==
  /\ argv \in CommandLines
  /\ pc \in {"parse", "dispatch", "lv_client", "lv_query", "lv_loop",
             "tts_read", "tts_client", "tts_build", "tts_synth", "tts_write",
             "return", "exited"}
  /\ exitStatus \in {Running, 0, 1, 2}
  /\ idx \in 0..Len(voices)

\* ------------------------------------------------------- derived predicates
Parsed == args.voice # None
Exited == pc = "exited"
HasOp(name) == \E i \in DOMAIN ops : ops[i].op = name
OpCount(name) == Cardinality({i \in DOMAIN ops : ops[i].op = name})
OpNames == [i \in DOMAIN ops |-> ops[i].op]
ErrCount == Cardinality({i \in DOMAIN out : IsErr(out[i])})
HasErr(tag) == \E i \in DOMAIN out : IsErr(out[i]) /\ out[i][2] = tag
HasProgress(tag) == \E i \in DOMAIN out : out[i][1] = "progress" /\ out[i][2] = tag
LastIsProgress(tag) ==
  /\ out # <<>>
  /\ out[Len(out)][1] = "progress"
  /\ out[Len(out)][2] = tag
HelpPrinted == \E i \in DOMAIN out : out[i][1] = "help"
IsDivider(m) == m[1] = "rule" /\ m[2] = "-"
DividerCount == Cardinality({i \in DOMAIN out : IsDivider(out[i])})
InTts == Parsed /\ ~args.list_voices /\ pc \notin {"parse", "dispatch"}
         /\ ~HelpPrinted
InListing == Parsed /\ args.list_voices /\ pc \notin {"parse", "dispatch"}

\* the five steps of text_to_speech, by the operation each one attempts
TtsSteps == <<"open_r", "client", "build", "synthesize", "open_w">>
\* the message each step prints when it has succeeded
StepDone == <<"read", "connected", "using voice", "complete", "written">>
DoneCount == Cardinality({k \in DOMAIN StepDone : HasProgress(StepDone[k])})

\* ------------------------------------------------------------------ claims

\* C1: when the input read, the client creation, the synthesize call and the
\* output write have all succeeded, the output file holds exactly the bytes
\* the service returned as audio_content, and the process ends with status 0.
C1_OutputIsAudioContent ==
  (InTts /\ LastIsProgress("written")) =>
     /\ fs[args.output_file] = File(audio)
     /\ ops[Len(ops)].arg = args.output_file
     /\ ops[4].op = "synthesize"
     /\ Exited => exitStatus = 0

\* a run that replaced an older, longer output file by a two-byte payload
C1_Witness ==
  /\ Exited /\ exitStatus = 0
  /\ InTts /\ LastIsProgress("written")
  /\ audio = <<"00", "ff">>
  /\ args.input_file = args.output_file

\* C2: a failure of the client creation, of the list-voices query or of the
\* synthesize call ends the process with a non-zero status, the failing call
\* is the last operation and its report the last output; after a failed
\* synthesize call or client creation the output path is never opened.
C2_RemoteFailureStops ==
  (HasErr("creating client") \/ HasErr("listing voices") \/ HasErr("during synthesis")) =>
     /\ Exited
     /\ exitStatus \in {1, 2}
     /\ IsErr(out[Len(out)])
     /\ ops[Len(ops)].op \in {"client", "list_voices", "synthesize"}
     /\ ~HasOp("open_w")
     /\ HasErr("creating client") => ~HasOp("synthesize") /\ ~HasOp("list_voices")

\* a synthesize call that failed
C2_Witness ==
  /\ Exited
  /\ HasErr("during synthesis")
  /\ ops[Len(ops)].op = "synthesize"

\* C3: a synthesis run whose input path does not exist reports it and exits
\* with a non-zero status having done nothing but the attempt to open the
\* input: no client is created, no synthesize call made, no output opened.
C3_MissingInputStops ==
  /\ HasErr("input not found") =>
       /\ Exited
       /\ exitStatus = 1
       /\ OpNames = <<"open_r">>
       /\ out = <<Err("input not found")>>
  /\ (InTts /\ OpNames = <<"open_r">>
        /\ FileState(fs, args.input_file).st = "missing") =>
       HasErr("input not found")

\* a run on a missing input whose output path holds an older file
C3_Witness ==
  /\ Exited /\ InTts
  /\ FileState(fs, args.input_file).st = "missing"
  /\ HasErr("input not found")
  /\ fs[args.output_file] = File(OldContent)

C5_ListVoicesOnly ==
  (argv.list_voices /\ Len(argv.pos) <= NumSlots) =>
     /\ pc \in {"parse", "dispatch", "lv_client", "lv_query", "lv_loop",
                "return", "exited"}
     /\ \A i \in DOMAIN ops :
          /\ ops[i].op \in {"client", "list_voices"}
          /\ ops[i].op = "list_voices" =>
               ops[i].arg = (IF argv.language = Absent THEN "en-US"
                             ELSE argv.language)
     /\ OpNames \in {<<>>, <<"client">>, <<"client", "list_voices">>}
     /\ ~(Parsed /\ HelpPrinted)
     /\ request = NoRequest /\ text = <<>> /\ audio = <<>>
     /\ (Exited /\ ~argv.help) => HasOp("client")

\* a listing run given two positionals and a --voice
C5_Witness ==
  /\ Exited /\ Parsed /\ args.list_voices
  /\ args.input_file \in Paths /\ args.output_file \in Paths
  /\ argv.voice # Absent
  /\ HasOp("list_voices")
  /\ idx = 1

\* the selected flow ran to its end
FlowRanToEnd ==
  /\ Parsed
  /\ IF args.list_voices
     THEN HasOp("list_voices") /\ idx = Len(voices)
          /\ Len(out) = 3 + 5 * Len(voices)
     ELSE LastIsProgress("written")

\* C6 as stated: every invocation ends with status 0 or 1, and the status is
\* 0 exactly when no error was reported and the selected flow ran to its end.
C6_Original ==
  Exited =>
     /\ exitStatus \in {0, 1}
     /\ exitStatus = 0 <=> (ErrCount = 0 /\ FlowRanToEnd)

C6_ExitInv ==
  /\ Exited => exitStatus \in {0, 1, 2}
  /\ (Exited /\ Parsed) =>
       /\ exitStatus \in {0, 1}
       /\ exitStatus = 0 <=> (ErrCount = 0 /\ FlowRanToEnd)
       /\ ErrCount > 0 => exitStatus = 1
       /\ HelpPrinted => exitStatus = 1
  /\ (Exited /\ ~Parsed) =>
       /\ ops = <<>>
       /\ exitStatus = (IF argv.help THEN 0 ELSE 2)
       /\ ~argv.help => Len(argv.pos) > NumSlots

\* C6, amended: every invocation terminates; one whose command line the
\* argument parser accepts ends with status 0 or 1, 0 exactly when no error
\* was reported and the selected flow ran to its end, 1 on every reported
\* error and on a missing positional; a help request ends with status 0
\* before any flow is selected, a rejected command line with status 2.
C6_ExitStatus == [] C6_ExitInv /\ <>Exited

\* a command line with a third positional was rejected
C6_Witness ==
  /\ Exited /\ ~Parsed
  /\ exitStatus = 2
  /\ Len(argv.pos) = NumSlots + 1

\* C7: in the listing flow the banner naming the queried language is printed
\* once, before all voice records, and every voice printed so far has its
\* name, languages, gender label and sample rate lines followed by one
\* divider: when the flow ends there are as many dividers as voices.
C7_OneDividerPerVoice ==
  (InListing /\ HasOp("list_voices") /\ ErrCount = 0) =>
     /\ Len(out) = 3 + 5 * idx
     /\ DividerCount = idx
     /\ pc \in {"return", "exited"} => idx = Len(voices)
     /\ out[2][1] = "banner" /\ out[2][2] = args.language
     /\ Cardinality({i \in DOMAIN out : out[i][1] = "banner"}) = 1
     /\ ops[Len(ops)].arg = args.language
     /\ \A k \in 1..idx :
          LET b == 3 + 5 * (k - 1) IN
          /\ out[b + 1][1] = "Name" /\ out[b + 1][2] = voices[k].name
          /\ out[b + 2][1] = "Languages"
          /\ out[b + 2][2] = Join(voices[k].language_codes)
          /\ out[b + 3][1] = "Gender"
          /\ out[b + 3][2] \in {GenderNames[g] : g \in DOMAIN GenderNames}
          /\ out[b + 4][1] = "Natural Sample Rate"
          /\ out[b + 4][2] = voices[k].natural_sample_rate_hertz
          /\ IsDivider(out[b + 5])

\* a listing of two voices for a --language value ran to its end
C7_Witness ==
  /\ Exited /\ InListing /\ exitStatus = 0
  /\ args.language = "fr-FR"
  /\ Len(voices) >= 2
  /\ DividerCount = Len(voices)

\* C8: a run in which a step fails prints exactly one error message, as its
\* last output, and ends there with a non-zero status: nothing is printed or
\* attempted after the error, and the failed step is not tried again.
C8_OneErrorThenExit ==
  /\ ErrCount <= 1
  /\ ErrCount = 1 =>
       /\ IsErr(out[Len(out)])
       /\ Exited
       /\ exitStatus \in {1, 2}
  /\ (Exited /\ exitStatus = 1 /\ ops # <<>>) => ErrCount = 1
  /\ \A name \in {"open_r", "list_voices", "synthesize", "open_w", "client"} :
       OpCount(name) <= 1

\* the write of the output file failed after four successful steps
C8_Witness ==
  /\ Exited /\ exitStatus = 1
  /\ HasErr("writing output file")
  /\ Len(out) = 6
  /\ Len(audio) > 0 /\ fs[args.output_file] = File(<<>>)

\* C9: in a synthesis run the steps are attempted in the order read input,
\* create client, build request, synthesize, write output, each at most
\* once; a step is attempted only when all earlier ones have succeeded, and
\* a failed step is the last one attempted.
C9_StepsInOrder ==
  InTts =>
     /\ Len(ops) <= Len(TtsSteps)
     /\ \A i \in DOMAIN ops : ops[i].op = TtsSteps[i]
     /\ \A k \in DOMAIN StepDone : HasProgress(StepDone[k]) => k <= Len(ops)
     /\ DoneCount = (IF ErrCount = 0 THEN Len(ops) ELSE Len(ops) - 1)
     /\ ErrCount > 0 => Exited
     /\ pc = "tts_read" => Len(ops) = 0
     /\ pc = "tts_client" => Len(ops) = 1
     /\ pc = "tts_build" => Len(ops) = 2
     /\ pc = "tts_synth" => Len(ops) = 3
     /\ pc = "tts_write" => Len(ops) = 4
     /\ pc = "return" => Len(ops) = 5

\* all five steps were taken
C9_Witness ==
  /\ InTts /\ Exited
  /\ OpNames = TtsSteps
  /\ DoneCount = 5

\* C10: the request passed to synthesize_speech carries the text as read
\* from the input file, the language code and voice name of the command
\* line (the defaults when absent) and the MP3 encoding, in one request;
\* nothing between the client creation and the call can stop the run, so
\* any voice name goes to the service with any language code.
C10_RequestAsGiven ==
  /\ \A i \in DOMAIN ops : ops[i].op = "synthesize" =>
       /\ ops[i].arg.text = text
       /\ ops[i].arg.name = (IF argv.voice = Absent THEN "en-US-Wavenet-D"
                             ELSE argv.voice)
       /\ ops[i].arg.language_code = (IF argv.language = Absent THEN "en-US"
                                      ELSE argv.language)
       /\ ops[i].arg.audio_encoding = "MP3"
       /\ ~HasOp("open_w") => text = ReadText(fs[args.input_file].data)
  /\ OpCount("synthesize") <= 1
  /\ (InTts /\ HasProgress("connected") /\ pc \notin {"tts_build", "tts_synth"}) =>
       HasOp("synthesize")

\* a French voice was requested with the default language en-US, for a text
\* whose line ending was a carriage return
C10_Witness ==
  /\ HasOp("synthesize")
  /\ request.name = "fr-FR-Wavenet-A"
  /\ request.language_code = "en-US"
  /\ fs[args.input_file] = File(<<"a", "CR">>)
  /\ text = <<"a", "LF">>
====
